---- MODULE Spec2Model ----
(***************************************************************************)
(* Conversation memory of the LINE / OpenAI relay bot.                     *)
(*                                                                         *)
(*   src/src/memory.py   class Memory: per-user history and override       *)
(*   src/main.py         handle_text_message: one inbound text event       *)
(*   src/src/models.py   OpenAIModel._request / chat_completions           *)
(*                                                                         *)
(* Three specifications share the Memory operators:                         *)
(*   Spec      the Memory API called directly, one call at a time          *)
(*   SpecBot   handle_text_message, one event at a time                    *)
(*   SpecConc  two request threads, Memory.append split into its steps     *)
(*                                                                         *)
(* A text is a sequence of tokens.  The token CMD stands for the five      *)
(* characters of the command prefix, SP for one whitespace character, any  *)
(* other token for one ordinary character.                                 *)
(***************************************************************************)
EXTENDS Naturals, Sequences, FiniteSets

VARIABLES
    storage,               \* Memory.storage: user -> list of messages
    system_messages,       \* Memory.system_messages: user -> override
    memory_message_count,  \* Memory.memory_message_count
    last,                  \* the last Memory call of Spec and what it returned
    nappend,               \* per user: appends since the history was last empty
    model_management,      \* main.model_management: users that have a client
    ev,                    \* the last event handle_text_message handled
    unanswered,            \* per user: text of the last turn if its model call failed
    pc,                    \* SpecConc: per thread, position in its Memory call
    job,                   \* SpecConc: per thread, the call it is running
    ref,                   \* SpecConc: per thread, the list object it looked up
    committed              \* SpecConc: per user, messages whose append completed

vars == <<storage, system_messages, memory_message_count, last, nappend,
          model_management, ev, unanswered, pc, job, ref, committed>>

----------------------------------------------------------------------------
(* Bounds and inputs *)

\* largest memory_message_count the Memory constructor is given
MaxCount == 2

\* memory_message_count of the Memory that main.py builds
MainCount == 2

\* events SpecBot handles before the model stops
MaxEvents == 4

\* history length at which the threads of SpecConc stop starting appends
MaxConcLen == 2

Users == {"A", "B"}

CMD == "/cmd"
SP == " "

NoOverride == "NoOverride"
NoText == "NoText"

\* os.getenv('SYSTEM_MESSAGE'), the process-wide default
default_system_message == <<"D">>

\* contents given to Memory.append in Spec
Contents == {<<"h">>}

\* texts given to Memory.change_system_message in Spec
Overrides == {<<"X">>}

\* roles given to Memory.append in Spec (non-system turns)
TurnRoles == {"user", "assistant"}

\* total number of stored messages at which Spec stops appending: enough
\* for one user to receive 2N+3 messages after the system message
MaxStored(N) == 2 * N + 4

Message(role, content) == [role |-> role, content |-> content]

RECURSIVE TotalStored(_, _)
TotalStored(st, us) ==
    IF us = {} THEN 0
    ELSE LET u == CHOOSE x \in us : TRUE
         IN  Len(st[u]) + TotalStored(st, us \ {u})

----------------------------------------------------------------------------
(* Memory (src/src/memory.py) *)

\* Python's lst[-k:] for k >= 0: -0 is 0, so lst[-0:] is the whole list
PySliceLast(lst, k) ==
    IF k = 0 THEN lst
    ELSE IF k >= Len(lst) THEN lst
    ELSE SubSeq(lst, Len(lst) - k + 1, Len(lst))

\* the list Memory._initialize stores for a user
initialize_no_system(user_id) == <<>>
initialize(user_id) == <<Message("system", default_system_message)>>

\* the list Memory._drop_message returns for a stored list
drop_message(lst, N) ==
    IF Len(lst) >= (N + 1) * 2 + 1
    THEN <<lst[1]>> \o PySliceLast(lst, N * 2)
    ELSE lst

\* Memory.remove
storage_after_remove_all(st, user_id) == [v \in Users |-> <<>>]
storage_after_remove(st, user_id) == [st EXCEPT ![user_id] = <<>>]

\* Memory.append: initialise when empty, append; the list _drop_message
\* returns is not assigned to anything
storage_after_append_trimmed(st, user_id, role, content, N) ==
    LET base == IF st[user_id] = <<>> THEN initialize(user_id) ELSE st[user_id]
    IN  [st EXCEPT ![user_id] =
            drop_message(Append(base, Message(role, content)), N)]
storage_after_append(st, user_id, role, content, N) ==
    LET base == IF st[user_id] = <<>> THEN initialize(user_id) ELSE st[user_id]
    IN  [st EXCEPT ![user_id] = Append(base, Message(role, content))]

\* Memory.change_system_message: the two dictionaries after the call
overrides_after_change(sm, user_id, system_message) ==
    [sm EXCEPT ![user_id] = system_message]

NoCall == [op |-> "none", user |-> "A", fresh |-> FALSE,
           added |-> <<>>, dropped |-> <<>>, ret |-> <<>>]

BotIdle == [kind |-> "none", user |-> "A", text |-> NoText, replies |-> 0,
            called |-> FALSE, sent |-> <<>>, pre |-> <<>>, before |-> NoText,
            n |-> 0]

NoJob == [op |-> "none", user |-> "A", content |-> <<>>]

InitMemory(N) ==
    /\ storage = [u \in Users |-> <<>>]
    /\ system_messages = [u \in Users |-> NoOverride]
    /\ memory_message_count = N
    /\ nappend = [u \in Users |-> 0]

Idle ==
    /\ last = NoCall
    /\ model_management = {}
    /\ ev = BotIdle
    /\ unanswered = [u \in Users |-> NoText]
    /\ pc = <<"idle", "idle">>
    /\ job = <<NoJob, NoJob>>
    /\ ref = <<"none", "none">>
    /\ committed = [u \in Users |-> <<>>]

botvars == <<model_management, ev, unanswered>>
concvars == <<pc, job, ref, committed>>

----------------------------------------------------------------------------
(* Spec: the Memory API, one call at a time *)

Init == \E N \in 0..MaxCount : InitMemory(N) /\ Idle

append(user_id, role, content) ==
    /\ TotalStored(storage, Users) + (IF storage[user_id] = <<>> THEN 2 ELSE 1)
          <= MaxStored(memory_message_count)
    /\ storage' = storage_after_append(storage, user_id, role, content,
                                       memory_message_count)
    /\ nappend' = [nappend EXCEPT ![user_id] = @ + 1]
    /\ last' = [op |-> "append", user |-> user_id,
                fresh |-> (storage[user_id] = <<>>),
                added |-> Append(IF storage[user_id] = <<>>
                                 THEN initialize(user_id)
                                 ELSE storage[user_id],
                                 Message(role, content)),
                dropped |-> drop_message(storage'[user_id], memory_message_count),
                ret |-> <<>>]
    /\ UNCHANGED <<system_messages, memory_message_count>>
    /\ UNCHANGED botvars /\ UNCHANGED concvars

get(user_id) ==
    /\ last' = [op |-> "get", user |-> user_id, fresh |-> FALSE,
                added |-> <<>>, dropped |-> <<>>, ret |-> storage[user_id]]
    /\ UNCHANGED <<storage, system_messages, memory_message_count, nappend>>
    /\ UNCHANGED botvars /\ UNCHANGED concvars

remove(user_id) ==
    /\ storage' = storage_after_remove(storage, user_id)
    /\ nappend' = [nappend EXCEPT ![user_id] = 0]
    /\ last' = [op |-> "remove", user |-> user_id, fresh |-> FALSE,
                added |-> <<>>, dropped |-> <<>>, ret |-> <<>>]
    /\ UNCHANGED <<system_messages, memory_message_count>>
    /\ UNCHANGED botvars /\ UNCHANGED concvars

change_system_message(user_id, system_message) ==
    /\ system_messages' = overrides_after_change(system_messages, user_id,
                                                 system_message)
    /\ storage' = storage_after_remove(storage, user_id)
    /\ nappend' = [nappend EXCEPT ![user_id] = 0]
    /\ last' = [op |-> "change_system_message", user |-> user_id,
                fresh |-> FALSE, added |-> <<>>, dropped |-> <<>>, ret |-> <<>>]
    /\ UNCHANGED memory_message_count
    /\ UNCHANGED botvars /\ UNCHANGED concvars

Next ==
    \/ \E u \in Users, r \in TurnRoles, c \in Contents : append(u, r, c)
    \/ \E u \in Users : get(u)
    \/ \E u \in Users : remove(u)
    \/ \E u \in Users, c \in Overrides : change_system_message(u, c)

Spec == Init /\ [][Next]_vars

----------------------------------------------------------------------------
(* Properties of the Memory API (checked under Spec) *)

\* the last k elements of a list, as a specification of trimming words it
LastElems(lst, k) == SubSeq(lst, Len(lst) - k + 1, Len(lst))

Threshold(N) == (N + 1) * 2 + 1

\* C1: append stores the trimmed history: when the list with the new message
\* has length >= (N+1)*2+1 the stored list is its first element followed by
\* its last 2N elements, so that a stored list is always shorter than
\* (N+1)*2+1.
AppendStoresTrimmed ==
    last.op = "append" =>
        LET h == last.added
            N == memory_message_count
        IN  /\ Len(h) >= Threshold(N) =>
                 storage[last.user] = <<h[1]>> \o LastElems(h, 2 * N)
            /\ Len(storage[last.user]) < Threshold(N)

\* C2: change_system_message(u, X) leaves an empty history, which get(u)
\* returns, and an append that initialises a history puts the override of
\* the user, or else the default, in the system message.
ExpectedSystemMessage(u) ==
    IF system_messages[u] # NoOverride
    THEN Message("system", system_messages[u])
    ELSE Message("system", default_system_message)

OverrideUsedOnInitialize ==
    /\ last.op = "change_system_message" => storage[last.user] = <<>>
    /\ (last.op = "get" /\ nappend[last.user] = 0) => last.ret = <<>>
    /\ (last.op = "append" /\ last.fresh) =>
          /\ Len(storage[last.user]) = 2
          /\ storage[last.user][1] = ExpectedSystemMessage(last.user)
          /\ storage[last.user][2] = last.added[Len(last.added)]

\* C5: every stored history is empty or starts with a message of role system.
HeadIsSystem ==
    \A u \in Users : storage[u] = <<>> \/ storage[u][1].role = "system"

\* a user whose history was reset by a command, initialised again and
\* appended to once more
HeadIsSystemWitness ==
    \E u \in Users :
        /\ last.op = "append" /\ last.user = u /\ ~last.fresh
        /\ system_messages[u] # NoOverride
        /\ Len(storage[u]) >= 3

\* C7: a call on one user leaves the history and the override of every
\* other user as they were.
Isolation ==
    [][\A b \in Users :
          b # last'.user =>
             /\ storage'[b] = storage[b]
             /\ system_messages'[b] = system_messages[b]]_vars

\* user B holds a history and an override while A's history is reset
IsolationWitness ==
    /\ last.op \in {"remove", "change_system_message"}
    /\ last.user = "A"
    /\ Len(storage["B"]) >= 2
    /\ system_messages["B"] # NoOverride

TrimIdempotent ==
    last.op = "append" =>
        drop_message(last.dropped, memory_message_count) = last.dropped

----------------------------------------------------------------------------
(* SpecBot: handle_text_message (src/main.py), one event at a time *)

\* str.strip() on a token sequence
RECURSIVE lstrip(_)
lstrip(t) == IF t # <<>> /\ Head(t) = SP THEN lstrip(Tail(t)) ELSE t

RECURSIVE rstrip(_)
rstrip(t) ==
    IF t # <<>> /\ t[Len(t)] = SP THEN rstrip(SubSeq(t, 1, Len(t) - 1)) ELSE t

strip(t) == rstrip(lstrip(t))

\* text.startswith(<command prefix>) and text[5:]
startswith_command(t) == t # <<>> /\ Head(t) = CMD
after_command(t) == Tail(t)

\* event.message.text of the inbound events
RawTexts == {<<"h">>, <<SP, "y", SP>>, <<CMD, SP, "X">>, <<SP, CMD, "X", SP>>,
             <<CMD>>}

\* what OpenAIModel._request returns or what follows it:
\*   "ok"          (True, response, None)
\*   "auth", "overloaded"   (False, None, <message of the API's error>)
\*   "unstable"    (False, None, <fixed text>) after an exception in requests
\*   "logfail"     (True, response, None), then write_log raises ClientError
Failures == {"auth", "overloaded", "unstable"}
Outcomes == {"ok", "logfail"} \cup Failures

\* is_successful of the tuple _request returns
is_successful(outcome) == outcome \notin Failures

\* content of the assistant message in a response
ResponseContent == <<"r">>

\* utils.get_role_and_content(response): role and content of the reply
get_role_and_content(outcome) == <<"assistant", ResponseContent>>

\* the list handle_text_message passes to chat_completions:
\* memory.append(user_id, 'user', text), then memory.get(user_id)
turn_messages_stale(st, user_id, text, N) == st[user_id]
turn_messages(st, user_id, text, N) ==
    storage_after_append(st, user_id, "user", text, N)[user_id]

\* Memory.storage after the non-command branch of handle_text_message:
\* the user's turn, and the reply when is_successful (else BaseException
\* leaves the handler before the second append)
storage_after_turn_always_reply(st, user_id, text, outcome, N) ==
    storage_after_append(
        storage_after_append(st, user_id, "user", text, N),
        user_id, get_role_and_content(outcome)[1],
        get_role_and_content(outcome)[2], N)
storage_after_turn(st, user_id, text, outcome, N) ==
    LET s1 == storage_after_append(st, user_id, "user", text, N)
    IN  IF is_successful(outcome)
        THEN storage_after_append(s1, user_id, get_role_and_content(outcome)[1],
                                  get_role_and_content(outcome)[2], N)
        ELSE s1

\* calls of line_bot_api.reply_message in one run of handle_text_message:
\* `except Exception` catches ClientError but not the BaseException raised
\* when is_successful is False, which leaves the handler before line 120
replies_of_turn(outcome) == IF is_successful(outcome) THEN 1 ELSE 0

InitBot == InitMemory(MainCount) /\ Idle

handle_command(user_id, raw) ==
    LET text == strip(raw) IN
    /\ ev.n < MaxEvents
    /\ startswith_command(text)
    /\ model_management' = model_management \cup {user_id}
    /\ system_messages' = overrides_after_change(system_messages, user_id,
                                                 strip(after_command(text)))
    /\ storage' = storage_after_remove(storage, user_id)
    /\ nappend' = [nappend EXCEPT ![user_id] = 0]
    /\ unanswered' = [unanswered EXCEPT ![user_id] = NoText]
    /\ ev' = [kind |-> "command", user |-> user_id, text |-> text,
              replies |-> 1, called |-> FALSE, sent |-> <<>>,
              pre |-> storage[user_id], before |-> unanswered[user_id],
              n |-> ev.n + 1]
    /\ UNCHANGED <<memory_message_count, last>>
    /\ UNCHANGED concvars

handle_turn(user_id, raw, outcome) ==
    LET text == strip(raw) IN
    /\ ev.n < MaxEvents
    /\ ~startswith_command(text)
    /\ model_management' = model_management \cup {user_id}
    /\ storage' = storage_after_turn(storage, user_id, text, outcome,
                                     memory_message_count)
    /\ nappend' = [nappend EXCEPT ![user_id] =
                      @ + (IF is_successful(outcome) THEN 2 ELSE 1)]
    /\ unanswered' = [unanswered EXCEPT ![user_id] =
                         IF is_successful(outcome) THEN NoText ELSE text]
    /\ ev' = [kind |-> outcome, user |-> user_id, text |-> text,
              replies |-> replies_of_turn(outcome), called |-> TRUE,
              sent |-> turn_messages(storage, user_id, text,
                                     memory_message_count),
              pre |-> storage[user_id], before |-> unanswered[user_id],
              n |-> ev.n + 1]
    /\ UNCHANGED <<system_messages, memory_message_count, last>>
    /\ UNCHANGED concvars

NextBot ==
    \/ \E u \in Users, raw \in RawTexts : handle_command(u, raw)
    \/ \E u \in Users, raw \in RawTexts, o \in Outcomes : handle_turn(u, raw, o)

SpecBot == InitBot /\ [][NextBot]_vars

\* C3: every handled text event gets exactly one reply.
ExactlyOneReply == ev.kind # "none" => ev.replies = 1

RECURSIVE AssistantCount(_)
AssistantCount(lst) ==
    IF lst = <<>> THEN 0
    ELSE (IF Head(lst).role = "assistant" THEN 1 ELSE 0)
         + AssistantCount(Tail(lst))

\* C4: a turn whose model call failed adds no assistant message and leaves
\* the user's message as the last of the history; the list passed to the
\* model on the user's next turn has that unanswered message immediately
\* before the new user message.
FailedTurnKept ==
    LET h == storage[ev.user] IN
    /\ ev.kind \in Failures =>
          /\ h # <<>>
          /\ h[Len(h)] = Message("user", ev.text)
          /\ AssistantCount(h) = AssistantCount(ev.pre)
    /\ (ev.called /\ ev.before # NoText) =>
          /\ Len(ev.sent) >= 3
          /\ ev.sent[Len(ev.sent) - 1] = Message("user", ev.before)
          /\ ev.sent[Len(ev.sent)] = Message("user", ev.text)

\* a turn that follows a failed turn of the same user and fails as well
FailedTurnKeptWitness ==
    /\ ev.kind = "auth"
    /\ ev.before # NoText
    /\ AssistantCount(storage[ev.user]) >= 1

\* C10: on a non-command turn the list passed to chat_completions is the
\* whole stored history: everything stored before the event (after the
\* system message when the history was empty), then the text received as a
\* user message; it starts with a system message.
SentIsWholeHistory ==
    ev.called =>
        LET s == ev.sent
            base == IF ev.pre = <<>> THEN initialize(ev.user) ELSE ev.pre
        IN  /\ s = Append(base, Message("user", ev.text))
            /\ s[1].role = "system"
            /\ SubSeq(storage[ev.user], 1, Len(s)) = s

\* a turn after a command, a successful turn and a failed turn
SentIsWholeHistoryWitness ==
    /\ ev.called
    /\ ev.before # NoText
    /\ system_messages[ev.user] # NoOverride
    /\ AssistantCount(ev.sent) >= 1

----------------------------------------------------------------------------
(* SpecConc: two request threads (app.run serves each request on its own  *)
(* thread and Memory takes no lock).  A thread runs one Memory call at a   *)
(* time, as handle_text_message makes them: append(user_id, 'user', text)  *)
(* or change_system_message(user_id, text).  append is split where another *)
(* thread can run between its statements:                                  *)
(*   check    line 44     self.storage[user_id] == []                      *)
(*   init     line 45     self.storage[user_id] = [system message]         *)
(*   lookup   line 46     the list object self.storage[user_id] is read    *)
(*   push     lines 46-49 .append(...) on that object                      *)
(*   drop     line 50     _drop_message, its result unused                 *)
(* A thread between lookup and push holds a list object.  When another     *)
(* thread assigns a new list to the user's entry, the held object is no    *)
(* longer the stored one, and the push changes nothing that is stored.     *)

Threads == {1, 2}

\* the text a thread sends, one per thread so that messages can be told apart
ThreadText(t) == IF t = 1 THEN <<"p">> ELSE <<"q">>

\* the references after thread t assigned a new list to user_id's entry
refs_after_assign(t, user_id, how) ==
    [o \in Threads |->
        IF o # t /\ ref[o] = "live" /\ job[o].user = user_id THEN how
        ELSE ref[o]]

InitConc == InitMemory(MainCount) /\ Idle

start_append(t, user_id) ==
    /\ pc[t] = "idle"
    /\ Len(storage[user_id]) < MaxConcLen
    /\ Len(committed[user_id]) < MaxConcLen
    /\ job' = [job EXCEPT ![t] = [op |-> "append", user |-> user_id,
                                  content |-> ThreadText(t)]]
    /\ pc' = [pc EXCEPT ![t] = "check"]
    /\ UNCHANGED <<storage, system_messages, memory_message_count, last,
                   nappend, ref, committed>>
    /\ UNCHANGED botvars

start_change(t, user_id, system_message) ==
    /\ pc[t] = "idle"
    /\ job' = [job EXCEPT ![t] = [op |-> "change_system_message",
                                  user |-> user_id,
                                  content |-> system_message]]
    /\ pc' = [pc EXCEPT ![t] = "set"]
    /\ UNCHANGED <<storage, system_messages, memory_message_count, last,
                   nappend, ref, committed>>
    /\ UNCHANGED botvars

append_check(t) ==
    /\ pc[t] = "check"
    /\ pc' = [pc EXCEPT ![t] =
                 IF storage[job[t].user] = <<>> THEN "init" ELSE "lookup"]
    /\ UNCHANGED <<storage, system_messages, memory_message_count, last,
                   nappend, job, ref, committed>>
    /\ UNCHANGED botvars

append_initialize(t) ==
    /\ pc[t] = "init"
    /\ storage' = [storage EXCEPT ![job[t].user] = initialize(job[t].user)]
    /\ ref' = refs_after_assign(t, job[t].user, "replaced")
    /\ pc' = [pc EXCEPT ![t] = "lookup"]
    /\ UNCHANGED <<system_messages, memory_message_count, last, nappend, job,
                   committed>>
    /\ UNCHANGED botvars

append_lookup(t) ==
    /\ pc[t] = "lookup"
    /\ ref' = [ref EXCEPT ![t] = "live"]
    /\ pc' = [pc EXCEPT ![t] = "push"]
    /\ UNCHANGED <<storage, system_messages, memory_message_count, last,
                   nappend, job, committed>>
    /\ UNCHANGED botvars

\* a push on a list that a remove took out of the dictionary is counted as
\* removed by it, not as a completed append
append_push(t) ==
    LET u == job[t].user
        m == Message("user", job[t].content)
    IN  /\ pc[t] = "push"
        /\ storage' = IF ref[t] = "live"
                      THEN [storage EXCEPT ![u] = Append(@, m)]
                      ELSE storage
        /\ committed' = IF ref[t] = "removed"
                        THEN committed
                        ELSE [committed EXCEPT ![u] = Append(@, m)]
        /\ ref' = [ref EXCEPT ![t] = "none"]
        /\ pc' = [pc EXCEPT ![t] = "drop"]
        /\ UNCHANGED <<system_messages, memory_message_count, last, nappend,
                       job>>
        /\ UNCHANGED botvars

append_drop(t) ==
    /\ pc[t] = "drop"
    /\ pc' = [pc EXCEPT ![t] = "idle"]
    /\ UNCHANGED <<storage, system_messages, memory_message_count, last,
                   nappend, job, ref, committed>>
    /\ UNCHANGED botvars

change_set(t) ==
    /\ pc[t] = "set"
    /\ system_messages' = overrides_after_change(system_messages, job[t].user,
                                                 job[t].content)
    /\ pc' = [pc EXCEPT ![t] = "remove"]
    /\ UNCHANGED <<storage, memory_message_count, last, nappend, job, ref,
                   committed>>
    /\ UNCHANGED botvars

change_remove(t) ==
    /\ pc[t] = "remove"
    /\ storage' = storage_after_remove(storage, job[t].user)
    /\ ref' = refs_after_assign(t, job[t].user, "removed")
    /\ committed' = [committed EXCEPT ![job[t].user] = <<>>]
    /\ pc' = [pc EXCEPT ![t] = "idle"]
    /\ UNCHANGED <<system_messages, memory_message_count, last, nappend, job>>
    /\ UNCHANGED botvars

NextConc ==
    \/ \E t \in Threads, u \in Users : start_append(t, u)
    \/ \E t \in Threads, u \in Users, x \in Overrides : start_change(t, u, x)
    \/ \E t \in Threads : append_check(t)
    \/ \E t \in Threads : append_initialize(t)
    \/ \E t \in Threads : append_lookup(t)
    \/ \E t \in Threads : append_push(t)
    \/ \E t \in Threads : append_drop(t)
    \/ \E t \in Threads : change_set(t)
    \/ \E t \in Threads : change_remove(t)

SpecConc == InitConc /\ [][NextConc]_vars

RECURSIVE Occurrences(_, _)
Occurrences(m, lst) ==
    IF lst = <<>> THEN 0
    ELSE (IF Head(lst) = m THEN 1 ELSE 0) + Occurrences(m, Tail(lst))

\* every message whose append completed since the last reset is stored
NoCompletedAppendLost ==
    \A u \in Users : \A i \in DOMAIN committed[u] :
        Occurrences(committed[u][i], storage[u])
            >= Occurrences(committed[u][i], committed[u])

\* C6: under every interleaving of two handlers the stored history is empty
\* or starts with a system message, and no message whose append completed
\* is lost except through a remove or change_system_message.
SerializedPerUser == HeadIsSystem /\ NoCompletedAppendLost

====
